---- MODULE Spec2Model ----
(***************************************************************************)
(* Darwinbox HR agent: the HR API client operations of src/deploy.py and   *)
(* src/app.py, the manual function-calling loop of src/app.py main(), and  *)
(* the startup of both programs (configuration read from the environment). *)
(*                                                                         *)
(* Python strings are sequences of one-character strings, so that          *)
(* strptime, strip and capitalize are computed character by character.     *)
(***************************************************************************)
EXTENDS Integers, Sequences, FiniteSets, TLC

VARIABLES
    cpc,        \* client harness: "ready" or "returned"
    call,       \* the client call made: [op, args, net]
    outcome,    \* what the call did: [exc, ret, reqs]
    pc,         \* dispatch loop position within the turn
    messages,   \* st.session_state.messages, the display transcript
    history,    \* st.session_state.chat_session history (model conversation)
    response,   \* the model's latest reply (a sequence of parts)
    fn,         \* the function call taken from parts[0]: [name, args]
    toolret,    \* function_response_data
    turn,       \* per-turn trace: [start, sends, reply1, lookup, bound, invoked, raised, responses, path]
    nturns,     \* number of turns completed
    env,        \* os.environ after load_dotenv(): the configuration variables the program reads
    boot        \* the program run: [prog, pc, loaded, tools, session]

vars == <<cpc, call, outcome, pc, messages, history, response, fn, toolret, turn, nturns, env, boot>>

startVars == <<env, boot>>
clientVars == <<cpc, call, outcome>>
loopVars == <<pc, messages, history, response, fn, toolret, turn, nturns>>

-----------------------------------------------------------------------------
(* Python values: str, None, list of str.                                  *)

StrV(s) == [t |-> "str", s |-> s, l |-> <<>>]
NoneV == [t |-> "none", s |-> <<>>, l |-> <<>>]
ListV(l) == [t |-> "list", s |-> <<>>, l |-> l]
BoolV(b) == [t |-> "bool", s |-> IF b THEN <<"T">> ELSE <<>>, l |-> <<>>]

IsStr(v) == v.t = "str"

\* bool(v): an empty str, an empty list, None and False are falsy
Truthy(v) ==
    CASE v.t = "str" -> v.s # <<>>
      [] v.t = "list" -> v.l # <<>>
      [] v.t = "bool" -> v.s # <<>>
      [] OTHER -> FALSE

Whitespace == {" ", "\t"}
DigitChars == <<"0", "1", "2", "3", "4", "5", "6", "7", "8", "9">>
LowerChars == <<"a", "b", "c", "d", "e", "f", "g", "h", "i", "j", "k", "l", "m",
                "n", "o", "p", "q", "r", "s", "t", "u", "v", "w", "x", "y", "z">>
UpperChars == <<"A", "B", "C", "D", "E", "F", "G", "H", "I", "J", "K", "L", "M",
                "N", "O", "P", "Q", "R", "S", "T", "U", "V", "W", "X", "Y", "Z">>

Range(f) == {f[i] : i \in DOMAIN f}
IsDigit(c) == c \in Range(DigitChars)
DigitVal(c) == (CHOOSE i \in 1..10 : DigitChars[i] = c) - 1
IndexIn(alpha, c) == CHOOSE i \in 1..Len(alpha) : alpha[i] = c

\* str.lower() / str.upper() of one character
LowerChar(c) == IF c \in Range(UpperChars) THEN LowerChars[IndexIn(UpperChars, c)] ELSE c
UpperChar(c) == IF c \in Range(LowerChars) THEN UpperChars[IndexIn(LowerChars, c)] ELSE c

\* str.strip(): drops leading and trailing whitespace
strip(s) ==
    LET keep == {i \in 1..Len(s) : s[i] \notin Whitespace}
    IN IF keep = {} THEN <<>>
       ELSE LET lo == CHOOSE i \in keep : \A j \in keep : i <= j
                hi == CHOOSE i \in keep : \A j \in keep : j <= i
            IN SubSeq(s, lo, hi)

\* str.capitalize(): first character upper-cased, the rest lower-cased
capitalize_first_only(s) ==
    [i \in 1..Len(s) |-> IF i = 1 THEN UpperChar(s[i]) ELSE s[i]]

capitalize(s) ==
    [i \in 1..Len(s) |-> IF i = 1 THEN UpperChar(s[i]) ELSE LowerChar(s[i])]

-----------------------------------------------------------------------------
(* datetime.strptime / strftime for the formats the program uses.          *)

IsLeap(y) == (y % 4 = 0 /\ y % 100 # 0) \/ y % 400 = 0
DaysInMonth(y, m) ==
    CASE m \in {1, 3, 5, 7, 8, 10, 12} -> 31
      [] m \in {4, 6, 9, 11} -> 30
      [] OTHER -> IF IsLeap(y) THEN 29 ELSE 28

\* length of the prefix of tok matched by %m: 1[0-2] | 0[1-9] | [1-9]
MonthPrefix(tok) ==
    IF Len(tok) >= 2 /\ ((tok[1] = "1" /\ tok[2] \in {"0", "1", "2"})
                          \/ (tok[1] = "0" /\ IsDigit(tok[2]) /\ tok[2] # "0"))
    THEN 2
    ELSE IF Len(tok) >= 1 /\ IsDigit(tok[1]) /\ tok[1] # "0" THEN 1 ELSE 0

\* length of the prefix of tok matched by %d: 3[01] | [12]\d | 0[1-9] | [1-9] | " "[1-9]
DayPrefix(tok) ==
    IF Len(tok) >= 2 /\ ((tok[1] = "3" /\ tok[2] \in {"0", "1"})
                          \/ (tok[1] \in {"1", "2"} /\ IsDigit(tok[2]))
                          \/ (tok[1] \in {"0", " "} /\ IsDigit(tok[2]) /\ tok[2] # "0"))
    THEN 2
    ELSE IF Len(tok) >= 1 /\ IsDigit(tok[1]) /\ tok[1] # "0" THEN 1 ELSE 0

\* int() of a matched token (a leading space of %d is skipped)
TokVal(tok) ==
    IF Len(tok) = 1 THEN DigitVal(tok[1])
    ELSE (IF tok[1] = " " THEN 0 ELSE 10 * DigitVal(tok[1])) + DigitVal(tok[2])

NoDate == [ok |-> FALSE, y |-> 0, m |-> 0, d |-> 0, why |-> "does not match format"]
BadDate(why) == [NoDate EXCEPT !.why = why]

YearOf(s) == 1000 * DigitVal(s[1]) + 100 * DigitVal(s[2]) + 10 * DigitVal(s[3]) + DigitVal(s[4])
HasYearDash(s) == Len(s) >= 5 /\ (\A i \in 1..4 : IsDigit(s[i])) /\ s[5] = "-"

\* datetime.strptime(s, '%Y-%m'): ok, or the ValueError it raises
strptime_Ym(s) ==
    IF ~HasYearDash(s) THEN NoDate
    ELSE LET tok == SubSeq(s, 6, Len(s))
             n == MonthPrefix(tok)
         IN IF n = 0 THEN NoDate
            ELSE IF n < Len(tok) THEN BadDate("unconverted data remains")
            ELSE IF YearOf(s) = 0 THEN BadDate("year 0 is out of range")
            ELSE [ok |-> TRUE, y |-> YearOf(s), m |-> TokVal(tok), d |-> 1, why |-> ""]

\* datetime.strptime(s, '%Y-%m-%d'): ok, or the ValueError it raises
strptime_Ymd(s) ==
    IF ~HasYearDash(s) THEN NoDate
    ELSE LET rest == SubSeq(s, 6, Len(s))
             dashes == {i \in 1..Len(rest) : rest[i] = "-"}
         IN IF dashes = {} THEN NoDate
            ELSE LET k == CHOOSE i \in dashes : \A j \in dashes : i <= j
                     mtok == SubSeq(rest, 1, k - 1)
                     dtok == SubSeq(rest, k + 1, Len(rest))
                     dn == DayPrefix(dtok)
                 IN IF MonthPrefix(mtok) = 0 \/ MonthPrefix(mtok) < Len(mtok) THEN NoDate
                    ELSE IF dn = 0 THEN NoDate
                    ELSE IF dn < Len(dtok) THEN BadDate("unconverted data remains")
                    ELSE IF YearOf(s) = 0 THEN BadDate("year 0 is out of range")
                    ELSE IF TokVal(dtok) > DaysInMonth(YearOf(s), TokVal(mtok))
                         THEN BadDate("day is out of range for month")
                    ELSE [ok |-> TRUE, y |-> YearOf(s), m |-> TokVal(mtok),
                          d |-> TokVal(dtok), why |-> ""]

TwoDigits(n) == <<DigitChars[(n \div 10) + 1], DigitChars[(n % 10) + 1]>>

\* %Y of strftime: the C library prints the year without padding
YearDigits(y) ==
    IF y >= 1000 THEN <<DigitChars[(y \div 1000) + 1], DigitChars[((y \div 100) % 10) + 1],
                        DigitChars[((y \div 10) % 10) + 1], DigitChars[(y % 10) + 1]>>
    ELSE IF y >= 100 THEN <<DigitChars[(y \div 100) + 1], DigitChars[((y \div 10) % 10) + 1],
                            DigitChars[(y % 10) + 1]>>
    ELSE IF y >= 10 THEN <<DigitChars[(y \div 10) + 1], DigitChars[(y % 10) + 1]>>
    ELSE <<DigitChars[y + 1]>>

\* date.strftime('%d-%m-%Y')
strftime_dmY(dt) == TwoDigits(dt.d) \o <<"-">> \o TwoDigits(dt.m) \o <<"-">> \o YearDigits(dt.y)

-----------------------------------------------------------------------------
(* Exceptions.  cls is the Python class, msg what str(e) shows.            *)

NoExc == [cls |-> "", msg |-> "", status |-> 0, text |-> <<>>]
Exc(cls, msg) == [cls |-> cls, msg |-> msg, status |-> 0, text |-> <<>>]
HTTPErrorExc(status, text) == [cls |-> "HTTPError", msg |-> "Error for url", status |-> status, text |-> text]

\* the classes an exception of class cls is an instance of
Ancestors(cls) ==
    CASE cls \in {"ValueError", "TypeError", "AttributeError", "KeyError", "IndexError"}
            -> {cls, "Exception"}
      [] cls \in {"GoogleAPICallError", "ResponseValidationError"}
            -> {cls, "Exception"}
      [] cls \in {"HTTPError", "Timeout", "ConnectionError"}
            -> {cls, "RequestException", "Exception"}
      [] cls \in {"JSONDecodeError", "MissingSchema"}
            -> {cls, "RequestException", "ValueError", "Exception"}
      [] OTHER -> {cls}

IsInstance(e, cls) == e.cls # "" /\ cls \in Ancestors(e.cls)

\* the first exception raised when the steps are evaluated in order
RECURSIVE FirstExc(_)
FirstExc(es) ==
    IF es = <<>> THEN NoExc
    ELSE IF Head(es).cls # "" THEN Head(es) ELSE FirstExc(Tail(es))

-----------------------------------------------------------------------------
(* The HR platform's answer to one POST, chosen by the environment.        *)

\* e.response.text[:500]
DetailsLimit == 500

NoBody == [t |-> "none", keys |-> {}, status |-> "", n |-> 0, datan |-> 0]
ObjBody(keys, status, datan) == [t |-> "object", keys |-> keys, status |-> status, n |-> Cardinality(keys), datan |-> datan]
ArrayBody(n) == [t |-> "array", keys |-> {}, status |-> "", n |-> n, datan |-> 0]
NullBody == [t |-> "null", keys |-> {}, status |-> "", n |-> 0, datan |-> 0]
NumberBody == [t |-> "number", keys |-> {}, status |-> "", n |-> 0, datan |-> 0]

Bodies ==
    { ObjBody({"leaves"}, "", 0),
      ObjBody({"status", "data"}, "success", 2),
      ObjBody({"status", "error"}, "success", 0),
      ObjBody({"status", "message"}, "failure", 0),
      ArrayBody(2),
      NullBody,
      NumberBody }

ShortText == <<"N", "o">>

\* a response body one character longer than what _handle_api_error keeps
LongText == [i \in 1..(DetailsLimit + 1) |-> IF i = DetailsLimit + 1 THEN "!" ELSE "x"]

NetOk(body) == [kind |-> "ok", status |-> 200, body |-> body, text |-> <<>>]
NetFail(kind) == [kind |-> kind, status |-> 0, body |-> NoBody, text |-> <<>>]
NetHttp(status, text) == [kind |-> "http_error", status |-> status, body |-> NoBody, text |-> text]

NetOutcomes ==
    {NetOk(b) : b \in Bodies}
    \cup {NetFail(k) : k \in {"timeout", "connection", "invalid_url", "bad_json"}}
    \cup {NetHttp(st, ShortText) : st \in {404, 500}}
    \cup {NetHttp(502, LongText)}

-----------------------------------------------------------------------------
(* What a tool returns: the dict (deploy.py: its JSON text).               *)

NoMsg == [tmpl |-> "", code |-> 0, arg |-> <<>>, exc |-> ""]
Msg(tmpl) == [tmpl |-> tmpl, code |-> 0, arg |-> <<>>, exc |-> ""]
\* keys, status, error, details, data, employee_count: the dict's entries;
\* raw: the JSON value returned when it is the remote body itself
NoRet == [keys |-> {}, status |-> "", error |-> NoMsg, details |-> <<>>, data |-> NoBody, count |-> 0,
          raw |-> NoBody]

ErrorDict(msg) == [NoRet EXCEPT !.keys = {"error"}, !.error = msg]

\* {"status": "success", "data": response.json()}
SuccessDict(body) == [NoRet EXCEPT !.keys = {"status", "data"}, !.status = "success", !.data = body]

\* response.json() returned as it is: its "data" entry, if any, is the remote's own
RawDict(body) ==
    [NoRet EXCEPT !.keys = body.keys, !.status = body.status, !.raw = body,
                  !.data = IF "data" \in body.keys THEN ArrayBody(body.datan) ELSE NoBody,
                  !.error = IF "error" \in body.keys THEN Msg("<remote error value>") ELSE NoMsg]

Raise(e, reqs) == [exc |-> e, ret |-> NoRet, reqs |-> reqs]
Return(r, reqs) == [exc |-> NoExc, ret |-> r, reqs |-> reqs]

Min(a, b) == IF a < b THEN a ELSE b

_handle_api_error(e) ==
    IF IsInstance(e, "HTTPError")
    THEN [ErrorDict([Msg("API Error: {status_code}") EXCEPT !.code = e.status])
            EXCEPT !.keys = {"error", "details"},
                   !.details = SubSeq(e.text, 1, Min(DetailsLimit, Len(e.text)))]
    ELSE IF IsInstance(e, "Timeout")
    THEN ErrorDict(Msg("API Error: Request timed out"))
    ELSE ErrorDict([Msg("An unexpected error occurred: {str(e)}") EXCEPT !.exc = e.msg])

\* deploy.py: except Exception as e: return _handle_api_error(e, tool)
ExceptException_ValueErrorOnly(o) ==
    IF IsInstance(o.exc, "ValueError") THEN Return(_handle_api_error(o.exc), o.reqs) ELSE o

ExceptException(o) ==
    IF IsInstance(o.exc, "Exception") THEN Return(_handle_api_error(o.exc), o.reqs) ELSE o

\* app.py: except Exception as e: return {"error": f"An unexpected error occurred: {str(e)}"}
\* (str(e) of an HTTPError starts with the status code)
AppExceptException(o) ==
    IF IsInstance(o.exc, "Exception")
    THEN Return(ErrorDict([Msg("An unexpected error occurred: {str(e)}")
                              EXCEPT !.exc = o.exc.msg, !.code = o.exc.status]), o.reqs)
    ELSE o

\* requests.post(url, json=payload, ...); response.raise_for_status(); response.json()
Post(url, payload, timeout, net) ==
    LET req == <<[url |-> url, payload |-> payload, timeout |-> timeout]>>
    IN CASE net.kind = "invalid_url" -> [exc |-> Exc("MissingSchema", "Invalid URL: No scheme supplied"), body |-> NoBody, reqs |-> req]
         [] net.kind = "timeout" -> [exc |-> Exc("Timeout", "Read timed out"), body |-> NoBody, reqs |-> req]
         [] net.kind = "connection" -> [exc |-> Exc("ConnectionError", "Max retries exceeded"), body |-> NoBody, reqs |-> req]
         [] net.kind = "http_error" -> [exc |-> HTTPErrorExc(net.status, net.text), body |-> NoBody, reqs |-> req]
         [] net.kind = "bad_json" -> [exc |-> Exc("JSONDecodeError", "Expecting value"), body |-> NoBody, reqs |-> req]
         [] OTHER -> [exc |-> NoExc, body |-> net.body, reqs |-> req]

-----------------------------------------------------------------------------
(* Helpers of the tools.  A helper gives [exc, v]: the exception it raises  *)
(* or the value it returns.                                                *)

Val(v) == [exc |-> NoExc, v |-> v]
Err(e) == [exc |-> e, v |-> NoneV]

\* deploy.py validate_date_format: only ValueError is caught
validate_date_format(v) ==
    IF ~IsStr(v) THEN Err(Exc("TypeError", "strptime() argument 1 must be str"))
    ELSE Val(BoolV(strptime_Ymd(v.s).ok))

\* deploy.py convert_date_format with the default formats
convert_date_format_unchecked(v) ==
    IF ~IsStr(v) THEN Err(Exc("TypeError", "strptime() argument 1 must be str"))
    ELSE LET p == strptime_Ymd(v.s)
         IN IF p.ok THEN Val(StrV(strftime_dmY(p))) ELSE Val(v)

convert_date_format(v) ==
    IF ~IsStr(v) THEN Err(Exc("TypeError", "strptime() argument 1 must be str"))
    ELSE LET p == strptime_Ymd(v.s)
         IN IF p.ok THEN Val(StrV(strftime_dmY(p)))
            ELSE Err(Exc("ValueError", "Invalid date format: {date_string}"))

\* app.py convert_date_format: strptime's own ValueError
app_convert_date_format(v) ==
    IF ~IsStr(v) THEN Err(Exc("TypeError", "strptime() argument 1 must be str"))
    ELSE LET p == strptime_Ymd(v.s)
         IN IF p.ok THEN Val(StrV(strftime_dmY(p))) ELSE Err(Exc("ValueError", p.why))

\* deploy.py validate_employee_id: the truth value of what it returns
validate_employee_id_truthy_only(v) == Truthy(v)

validate_employee_id(v) == Truthy(v) /\ IsStr(v) /\ Len(strip(v.s)) >= 1

\* employee_no.strip()
StripV(v) ==
    IF IsStr(v) THEN Val(StrV(strip(v.s)))
    ELSE Err(Exc("AttributeError", "object has no attribute 'strip'"))

\* [str(e).strip() for e in employee_ids]
StrList(v) ==
    CASE v.t = "list" -> Val(ListV([i \in 1..Len(v.l) |-> strip(v.l[i])]))
      [] v.t = "str" -> Val(ListV([i \in 1..Len(v.s) |-> strip(<<v.s[i]>>)]))
      [] OTHER -> Err(Exc("TypeError", "object is not iterable"))

\* configured secrets, each a non-empty string
Key(name) == StrV(<<name>>)

-----------------------------------------------------------------------------
(* deploy.py: leave management tools.                                      *)

InvalidInputMsg == Msg("Invalid input parameters. Check employee_no and date formats (YYYY-MM-DD).")

\* not all([validate_employee_id(..), validate_date_format(..), validate_date_format(..)])
\* the list is built first, so every element is evaluated
IdAndDatesCheck(employee_no, start_date, end_date) ==
    LET v2 == validate_date_format(start_date)
        v3 == validate_date_format(end_date)
        e == FirstExc(<<v2.exc, v3.exc>>)
    IN IF e.cls # "" THEN Err(e)
       ELSE Val(BoolV(validate_employee_id(employee_no) /\ Truthy(v2.v) /\ Truthy(v3.v)))

get_leave_report(employee_no, start_date, end_date, net) ==
    LET chk == IdAndDatesCheck(employee_no, start_date, end_date)
        f == convert_date_format(start_date)
        t == convert_date_format(end_date)
        emp == StripV(employee_no)
        e == FirstExc(<<f.exc, t.exc, emp.exc>>)
        payload == [api_key |-> Key("LEAVE_KEYS.report"), from |-> f.v, to |-> t.v,
                    action |-> StrV(<<"2">>), action_from |-> f.v,
                    employee_no |-> ListV(<<emp.v.s>>)]
        r == Post("/leavesactionapi/leaveActionTakenLeaves", payload, 30, net)
    IN ExceptException(
         IF chk.exc.cls # "" THEN Raise(chk.exc, <<>>)
         ELSE IF ~Truthy(chk.v) THEN Return(ErrorDict(InvalidInputMsg), <<>>)
         ELSE IF e.cls # "" THEN Raise(e, <<>>)
         ELSE IF r.exc.cls # "" THEN Raise(r.exc, r.reqs)
         ELSE Return(RawDict(r.body), r.reqs))

get_leave_balance(employee_nos, leave_names, net) ==
    LET emps == StrList(employee_nos)
        payload == [api_key |-> Key("LEAVE_KEYS.balance"), ignore_rounding |-> StrV(<<"1">>),
                    employee_nos |-> emps.v,
                    leave_names |-> IF Truthy(leave_names) THEN leave_names ELSE ListV(<<>>)]
        r == Post("/leavesactionapi/leavebalance", payload, 30, net)
    IN ExceptException(
         IF emps.exc.cls # "" THEN Raise(emps.exc, <<>>)
         ELSE IF r.exc.cls # "" THEN Raise(r.exc, r.reqs)
         ELSE Return(RawDict(r.body), r.reqs))

Approved == <<"A", "p", "p", "r", "o", "v", "e", "d">>
Rejected == <<"R", "e", "j", "e", "c", "t", "e", "d">>
Revoked == <<"R", "e", "v", "o", "k", "e", "d">>

update_leave_status(employee_no, leave_id, action, manager_message, net) ==
    LET capitalized_action == IF IsStr(action) THEN capitalize(action.s) ELSE <<>>
        emp == StripV(employee_no)
        payload == [api_key |-> Key("LEAVE_KEYS.action"), employee_no |-> emp.v,
                    leave_id |-> leave_id, action |-> StrV(capitalized_action),
                    manager_message |-> manager_message]
        r == Post("/leavesactionapi/leaveaction", payload, 30, net)
    IN ExceptException(
         IF ~IsStr(action) THEN Raise(Exc("AttributeError", "object has no attribute 'capitalize'"), <<>>)
         ELSE IF capitalized_action \notin {Approved, Rejected, Revoked}
              THEN Return(ErrorDict([Msg("Invalid action: {action}. Must be 'Approved', 'Rejected', or 'Revoked'.")
                                        EXCEPT !.arg = action.s]), <<>>)
         ELSE IF emp.exc.cls # "" THEN Raise(emp.exc, <<>>)
         ELSE IF r.exc.cls # "" THEN Raise(r.exc, r.reqs)
         ELSE Return(RawDict(r.body), r.reqs))

apply_for_leave(employee_no, leave_name, start_date, end_date, is_half_day, is_first_half, is_paid, message, net) ==
    LET chk == IdAndDatesCheck(employee_no, start_date, end_date)
        emp == StripV(employee_no)
        f == convert_date_format(start_date)
        t == convert_date_format(end_date)
        e == FirstExc(<<emp.exc, f.exc, t.exc>>)
        leave_data == [employee_no |-> emp.v, leave_name |-> leave_name, message |-> message,
                       from_date |-> f.v, to_date |-> t.v,
                       is_half_day |-> StrV(IF Truthy(is_half_day) THEN <<"y", "e", "s">> ELSE <<"n", "o">>),
                       is_paid_or_unpaid |-> StrV(IF Truthy(is_paid) THEN <<"p", "a", "i", "d">>
                                                  ELSE <<"u", "n", "p", "a", "i", "d">>),
                       revoke_leave |-> StrV(<<"n", "o">>),
                       is_firsthalf_secondhalf |->
                           IF Truthy(is_half_day)
                           THEN StrV(IF Truthy(is_first_half) THEN <<"1">> ELSE <<"2">>)
                           ELSE NoneV]
        payload == [api_key |-> Key("LEAVE_KEYS.import"), data |-> <<leave_data>>]
        r == Post("/leavesactionapi/importleave", payload, 30, net)
    IN ExceptException(
         IF chk.exc.cls # "" THEN Raise(chk.exc, <<>>)
         ELSE IF ~Truthy(chk.v) THEN Return(ErrorDict(InvalidInputMsg), <<>>)
         ELSE IF e.cls # "" THEN Raise(e, <<>>)
         ELSE IF r.exc.cls # "" THEN Raise(r.exc, r.reqs)
         ELSE Return(RawDict(r.body), r.reqs))

get_holiday_list(employee_no, year, net) ==
    LET yr == IF Truthy(year) THEN year ELSE Key("str(datetime.now().year)")
        emp == StripV(employee_no)
        payload == [api_key |-> Key("LEAVE_KEYS.holiday"), employee_no |-> emp.v, year |-> yr]
        r == Post("/leavesactionapi/holidaylist", payload, 30, net)
    IN ExceptException(
         IF ~validate_employee_id(employee_no) THEN Return(ErrorDict(Msg("Invalid employee_no.")), <<>>)
         ELSE IF emp.exc.cls # "" THEN Raise(emp.exc, <<>>)
         ELSE IF r.exc.cls # "" THEN Raise(r.exc, r.reqs)
         ELSE Return(RawDict(r.body), r.reqs))

get_leave_encashment_details(employee_no, start_date, end_date, net) ==
    LET chk == IdAndDatesCheck(employee_no, start_date, end_date)
        f == strptime_Ymd(start_date.s)
        t == strptime_Ymd(end_date.s)
        emp == StripV(employee_no)
        payload == [api_key |-> Key("LEAVE_KEYS.encashment"),
                    from |-> StrV(strftime_dmY(f) \o <<" ", "0", "0", ":", "0", "0", ":", "0", "0">>),
                    to |-> StrV(strftime_dmY(t) \o <<" ", "2", "3", ":", "5", "9", ":", "5", "9">>),
                    employee_no |-> ListV(<<emp.v.s>>)]
        r == Post("/leavesactionapi/encashmentDetails", payload, 30, net)
    IN ExceptException(
         IF chk.exc.cls # "" THEN Raise(chk.exc, <<>>)
         ELSE IF ~Truthy(chk.v) THEN Return(ErrorDict(InvalidInputMsg), <<>>)
         ELSE IF ~f.ok \/ ~t.ok THEN Raise(Exc("ValueError", "does not match format"), <<>>)
         ELSE IF emp.exc.cls # "" THEN Raise(emp.exc, <<>>)
         ELSE IF r.exc.cls # "" THEN Raise(r.exc, r.reqs)
         ELSE Return(RawDict(r.body), r.reqs))

-----------------------------------------------------------------------------
(* deploy.py: attendance tools.                                            *)

get_daily_attendance_status(employee_ids, attendance_date, net) ==
    LET chk == validate_date_format(attendance_date)
        emps == StrList(employee_ids)
        d == convert_date_format(attendance_date)
        e == FirstExc(<<emps.exc, d.exc>>)
        payload == [api_key |-> Key("ATTENDANCE_KEYS.daily_status"), emp_number_list |-> emps.v,
                    attendance_date |-> d.v]
        r == Post("/AttendanceDataApi/daily", payload, 30, net)
    IN ExceptException(
         IF chk.exc.cls # "" THEN Raise(chk.exc, <<>>)
         ELSE IF ~Truthy(chk.v) THEN Return(ErrorDict(Msg("Invalid date format. Please use YYYY-MM-DD.")), <<>>)
         ELSE IF e.cls # "" THEN Raise(e, <<>>)
         ELSE IF r.exc.cls # "" THEN Raise(r.exc, r.reqs)
         ELSE Return(SuccessDict(r.body), r.reqs))

get_daily_attendance_roster(employee_ids, from_date, to_date, net) ==
    LET emps == StrList(employee_ids)
        payload == [api_key |-> Key("ATTENDANCE_KEYS.daily_roster"), emp_number_list |-> emps.v,
                    from_date |-> from_date, to_date |-> to_date]
        r == Post("/attendanceDataApi/DailyAttendanceRoster", payload, 30, net)
    IN ExceptException(
         IF emps.exc.cls # "" THEN Raise(emps.exc, <<>>)
         ELSE IF r.exc.cls # "" THEN Raise(r.exc, r.reqs)
         ELSE Return(SuccessDict(r.body), r.reqs))

get_attendance_punches(employee_ids, from_date, to_date, net) ==
    LET emps == StrList(employee_ids)
        f == convert_date_format(from_date)
        t == convert_date_format(to_date)
        e == FirstExc(<<emps.exc, f.exc, t.exc>>)
        payload == [api_key |-> Key("ATTENDANCE_KEYS.punches"), emp_number_list |-> emps.v,
                    from_date |-> f.v, to_date |-> t.v]
        r == Post("/AttendancePunchesApi", payload, 30, net)
    IN ExceptException(
         IF e.cls # "" THEN Raise(e, <<>>)
         ELSE IF r.exc.cls # "" THEN Raise(r.exc, r.reqs)
         ELSE Return(SuccessDict(r.body), r.reqs))

\* try: ... except ValueError: invalid month ... except Exception as e: _handle_api_error
MonthlyExcept(o) ==
    IF IsInstance(o.exc, "ValueError")
    THEN Return(ErrorDict(Msg("Invalid month_year format. Must be YYYY-MM.")), o.reqs)
    ELSE ExceptException(o)

get_monthly_attendance(employee_ids, month_year, net) ==
    LET emps == StrList(employee_ids)
        payload == [api_key |-> Key("ATTENDANCE_KEYS.monthly"), emp_number_list |-> emps.v,
                    month |-> month_year]
        r == Post("/AttendanceDataApi/monthly", payload, 30, net)
    IN MonthlyExcept(
         IF ~IsStr(month_year) THEN Raise(Exc("TypeError", "strptime() argument 1 must be str"), <<>>)
         ELSE IF ~strptime_Ym(month_year.s).ok
              THEN Raise(Exc("ValueError", strptime_Ym(month_year.s).why), <<>>)
         ELSE IF emps.exc.cls # "" THEN Raise(emps.exc, <<>>)
         ELSE IF r.exc.cls # "" THEN Raise(r.exc, r.reqs)
         ELSE Return(SuccessDict(r.body), r.reqs))

\* get_timesheet_datewise and get_overtime_datewise: the dates are converted first
DatewiseTool(url, key, employee_ids, from_date, to_date, net) ==
    LET f == convert_date_format(from_date)
        t == convert_date_format(to_date)
        emps == StrList(employee_ids)
        e == FirstExc(<<f.exc, t.exc, emps.exc>>)
        payload == [api_key |-> Key(key), from |-> f.v, to |-> t.v, emp_number_list |-> emps.v]
        r == Post(url, payload, 30, net)
    IN ExceptException(
         IF e.cls # "" THEN Raise(e, <<>>)
         ELSE IF r.exc.cls # "" THEN Raise(r.exc, r.reqs)
         ELSE Return(SuccessDict(r.body), r.reqs))

get_timesheet_datewise(employee_ids, from_date, to_date, net) ==
    DatewiseTool("/attendanceDataApi/timesheetdatewise", "ATTENDANCE_KEYS.timesheet_datewise",
                 employee_ids, from_date, to_date, net)

get_overtime_datewise(employee_ids, from_date, to_date, net) ==
    DatewiseTool("/attendanceDataApi/getOverTimeDatewise", "ATTENDANCE_KEYS.overtime_datewise",
                 employee_ids, from_date, to_date, net)

(* deploy.py: employee tools.                                              *)

\* len(api_data.get("data", [])) if isinstance(api_data, dict) else len(api_data)
EmployeeCount(body) ==
    CASE body.t = "object" -> Val(IF "data" \in body.keys THEN body.datan ELSE 0)
      [] body.t = "array" -> Val(body.n)
      [] OTHER -> Err(Exc("TypeError", "object has no len()"))

get_all_employees(net) ==
    LET payload == [api_key |-> Key("EMP_API_KEY"), datasetKey |-> Key("EMP_DATASET_KEY")]
        r == Post("/masterapi/employee", payload, 60, net)
        count == EmployeeCount(r.body)
    IN ExceptException(
         IF r.exc.cls # "" THEN Raise(r.exc, r.reqs)
         ELSE IF count.exc.cls # "" THEN Raise(count.exc, r.reqs)
         ELSE Return([SuccessDict(r.body) EXCEPT !.keys = {"status", "employee_count", "data"},
                                                 !.count = count.v], r.reqs))

-----------------------------------------------------------------------------
(* app.py: the four tools of the chat application.                         *)

app_get_leave_report(employee_id, start_date, end_date, net) ==
    LET f == app_convert_date_format(start_date)
        t == app_convert_date_format(end_date)
        emp == StripV(employee_id)
        e == FirstExc(<<f.exc, t.exc, emp.exc>>)
        payload == [api_key |-> Key("LEAVE_API_KEY"), from |-> f.v, to |-> t.v,
                    action |-> StrV(<<"2">>), action_from |-> f.v,
                    employee_no |-> ListV(<<emp.v.s>>)]
        r == Post("/leavesactionapi/leaveActionTakenLeaves", payload, 30, net)
    IN AppExceptException(
         IF e.cls # "" THEN Raise(e, <<>>)
         ELSE IF r.exc.cls # "" THEN Raise(r.exc, r.reqs)
         ELSE Return(RawDict(r.body), r.reqs))

app_get_employee_info(employee_ids, net) ==
    LET payload == [api_key |-> Key("EMP_API_KEY"), datasetKey |-> Key("EMP_DATASET_KEY"),
                    employee_ids |-> employee_ids]
        r == Post("/masterapi/employee", payload, 15, net)
    IN AppExceptException(
         IF r.exc.cls # "" THEN Raise(r.exc, r.reqs) ELSE Return(RawDict(r.body), r.reqs))

app_get_all_employees(net) ==
    LET payload == [api_key |-> Key("EMP_API_KEY"), datasetKey |-> Key("EMP_DATASET_KEY")]
        r == Post("/masterapi/employee", payload, 60, net)
    IN AppExceptException(
         IF r.exc.cls # "" THEN Raise(r.exc, r.reqs) ELSE Return(RawDict(r.body), r.reqs))

app_get_attendance_report(employee_ids, from_date, to_date, net) ==
    LET payload == [api_key |-> Key("ATTENDANCE_API_KEY"), emp_number_list |-> employee_ids,
                    from_date |-> from_date, to_date |-> to_date]
        r == Post("/attendanceDataApi/DailyAttendanceRoster", payload, 30, net)
    IN AppExceptException(
         IF r.exc.cls # "" THEN Raise(r.exc, r.reqs) ELSE Return(RawDict(r.body), r.reqs))

-----------------------------------------------------------------------------
(* Inputs of the client operations.                                        *)

E1 == <<"E", "1">>
E2 == <<"E", "2">>

EmployeeNos ==
    {StrV(E1), StrV(<<" ", "E", "1", " ">>), StrV(<<>>), StrV(<<" ", "\t">>), NoneV, ListV(<<E1>>)}

EmployeeIdLists ==
    {ListV(<<E1>>), ListV(<<<<" ", "E", "1", " ">>, E2>>), ListV(<<>>), StrV(E1), NoneV}

DateStrings ==
    { <<"2", "0", "2", "5", "-", "0", "1", "-", "3", "1">>,
      <<"2", "0", "2", "4", "-", "0", "2", "-", "2", "9">>,
      <<"2", "0", "2", "5", "-", "1", "-", "5">>,
      <<"0", "0", "9", "9", "-", "0", "1", "-", "0", "5">>,
      <<"2", "0", "2", "5", "-", "0", "2", "-", "3", "0">>,
      <<"3", "1", "-", "0", "1", "-", "2", "0", "2", "5">>,
      <<"2", "0", "2", "5", "-", "1", "3", "-", "0", "1">>,
      <<"2", "0", "2", "5", "-", "0", "1">>,
      <<>> }

DateArgs == {StrV(d) : d \in DateStrings} \cup {NoneV}

MonthStrings ==
    { <<"2", "0", "2", "5", "-", "1", "0">>,
      <<"2", "0", "2", "5", "-", "0", "1">>,
      <<"2", "0", "2", "5", "-", "1">>,
      <<"2", "0", "2", "5", "-", "1", "3">>,
      <<"2", "0", "2", "5", "-", "0", "0">>,
      <<"2", "0", "2", "5", "-", "1", "0", "-", "0", "5">>,
      <<"2", "0", "2", "5", "-", "0", "1", "0">>,
      <<"0", "0", "0", "0", "-", "0", "5">>,
      <<"1", "0", "-", "2", "0", "2", "5">>,
      <<"2", "0", "2", "5">>,
      <<>> }

MonthArgs == {StrV(m) : m \in MonthStrings} \cup {NoneV}

\* every casing of a word
CasingsOf(w) ==
    {[i \in 1..Len(w) |-> IF i \in up THEN UpperChar(w[i]) ELSE LowerChar(w[i])] : up \in SUBSET (1..Len(w))}

ActionStrings ==
    CasingsOf(Approved) \cup CasingsOf(Rejected) \cup CasingsOf(Revoked)
    \cup { <<"c", "a", "n", "c", "e", "l", "l", "e", "d">>,
      <<"C", "a", "n", "c", "e", "l", "l", "e", "d">>,
      <<" ", "a", "p", "p", "r", "o", "v", "e", "d">>,
      <<"a", "p", "p", "r", "o", "v", "e">>,
      <<"a", "p", "p", "r", "o", "v", "e", "d", "s">>,
      <<>> }

ActionArgs == {StrV(a) : a \in ActionStrings} \cup {NoneV}

\* a few answers of the HR platform, for the operations with many inputs
NetFew == {NetOk(ObjBody({"leaves"}, "", 0)), NetFail("timeout"), NetHttp(500, ShortText)}

-----------------------------------------------------------------------------
(* Startup: the configuration is read from the environment before any tool *)
(* is defined.                                                             *)

MaxMissing == 2

Programs == {"app", "deploy"}

\* app.py lines 39-45
AppEnvNames ==
    <<"DARWINBOX_DOMAIN", "DARWINBOX_USERNAME", "DARWINBOX_PASSWORD", "DARWINBOX_LEAVE_API_KEY",
      "DARWINBOX_EMP_API_KEY", "DARWINBOX_EMP_DATASET_KEY", "DARWINBOX_ATTENDANCE_API_KEY">>

\* deploy.py lines 54-82, in the order of the get_env_variable calls
DeployEnvNames ==
    <<"PROJECT_ID", "LOCATION", "GEMINI_MODEL",
      "DARWINBOX_DOMAIN", "DARWINBOX_USERNAME", "DARWINBOX_PASSWORD",
      "LEAVE_REPORT_KEY", "LEAVE_ACTION_KEY", "LEAVE_HOLIDAY_KEY", "LEAVE_BALANCE_KEY",
      "LEAVE_ENCASHMENT_KEY", "LEAVE_IMPORT_KEY",
      "ATTENDANCE_DAILY_ROSTER_KEY", "ATTD_DAILY_STATUS_KEY", "ATTENDANCE_PUNCHES_KEY",
      "ATTENDANCE_MONTHLY_KEY", "ATTD_DATEWISE_ROSTER_KEY", "ATTD_COMPOFF_KEY",
      "ATTENDANCE_TIMESHEET_KEY", "ATTENDANCE_TIMESHEET_DATEWISE_KEY",
      "ATTENDANCE_OVERTIME_DATEWISE_KEY",
      "EMP_API_KEY", "EMP_DATASET_KEY">>

EnvNames(p) == IF p = "app" THEN AppEnvNames ELSE DeployEnvNames

\* every variable the program reads is set to a non-empty string
FullEnv(p) == [n \in Range(EnvNames(p)) |-> StrV(<<"v">>)]

\* os.environ.get(name) of a variable that is absent (None) or empty ('')
Unset == {NoneV, StrV(<<>>)}

\* the environments in which at most k of the program's variables are absent or empty
RECURSIVE EnvsMissing(_, _)
EnvsMissing(p, k) ==
    IF k = 0 THEN {FullEnv(p)}
    ELSE LET fewer == EnvsMissing(p, k - 1)
         IN fewer \cup {[e EXCEPT ![n] = u] : e \in fewer, n \in Range(EnvNames(p)), u \in Unset}

\* the program has started and serves calls
Serving(p) == boot.prog = p /\ boot.pc = "running"

\* app.py lines 38-50: the seven values are read, then checked together
LoadCredentials ==
    /\ boot.prog = "app"
    /\ boot.pc = "start"
    /\ IF \A n \in Range(AppEnvNames) : Truthy(env[n])
       THEN boot' = [boot EXCEPT !.pc = "loaded", !.loaded = Len(AppEnvNames)]
       ELSE boot' = [boot EXCEPT !.pc = "stopped"]
    /\ UNCHANGED <<env, clientVars, loopVars>>

\* deploy.py lines 40-51: one call of get_env_variable, for the next variable
get_env_variable_no_exit ==
    /\ boot.prog = "deploy"
    /\ boot.pc = "start"
    /\ boot' = [boot EXCEPT !.loaded = @ + 1,
                            !.pc = IF boot.loaded + 1 = Len(DeployEnvNames) THEN "loaded" ELSE "start"]
    /\ UNCHANGED <<env, clientVars, loopVars>>

get_env_variable ==
    /\ boot.prog = "deploy"
    /\ boot.pc = "start"
    /\ LET value == env[DeployEnvNames[boot.loaded + 1]]
       IN IF ~Truthy(value)
          THEN boot' = [boot EXCEPT !.pc = "stopped"]
          ELSE boot' = [boot EXCEPT !.loaded = @ + 1,
                                    !.pc = IF boot.loaded + 1 = Len(DeployEnvNames) THEN "loaded" ELSE "start"]
    /\ UNCHANGED <<env, clientVars, loopVars>>

\* the def statements of the tools run (app.py lines 57-110, deploy.py lines 103-428)
DefineTools ==
    /\ boot.pc = "loaded"
    /\ boot' = [boot EXCEPT !.pc = "tools_defined", !.tools = TRUE]
    /\ UNCHANGED <<env, clientVars, loopVars>>

\* app.py lines 174-180 (model set up, chat session started) and deploy.py lines 493-548
\* (agent created and deployed); either can fail, which stops the program
StartSession ==
    /\ boot.pc = "tools_defined"
    /\ \/ boot' = [boot EXCEPT !.pc = "running", !.session = TRUE]
       \/ boot' = [boot EXCEPT !.pc = "stopped"]
    /\ UNCHANGED <<env, clientVars, loopVars>>

-----------------------------------------------------------------------------
(* The client operations called directly: one call, its inputs and the     *)
(* platform's answer chosen freely, then the outcome recorded.             *)

NoCall == [op |-> "", args |-> <<>>, net |-> NetFail("none")]
NoOutcome == Raise(NoExc, <<>>)

Called(op, args, net, o) ==
    /\ call' = [op |-> op, args |-> args, net |-> net]
    /\ outcome' = o
    /\ cpc' = "returned"
    /\ UNCHANGED <<loopVars, startVars>>

Call_get_leave_report ==
    /\ Serving("deploy")
    /\ cpc = "ready"
    /\ \E e \in EmployeeNos, d1 \in DateArgs, d2 \in DateArgs, net \in NetOutcomes :
         Called("get_leave_report", <<e, d1, d2>>, net, get_leave_report(e, d1, d2, net))

Call_get_leave_encashment_details ==
    /\ Serving("deploy")
    /\ cpc = "ready"
    /\ \E e \in EmployeeNos, d1 \in DateArgs, d2 \in DateArgs, net \in NetFew :
         Called("get_leave_encashment_details", <<e, d1, d2>>, net, get_leave_encashment_details(e, d1, d2, net))

Call_get_daily_attendance_roster ==
    /\ Serving("deploy")
    /\ cpc = "ready"
    /\ \E e \in EmployeeIdLists, d1 \in DateArgs, d2 \in DateArgs, net \in NetOutcomes :
         Called("get_daily_attendance_roster", <<e, d1, d2>>, net, get_daily_attendance_roster(e, d1, d2, net))

Call_get_attendance_punches ==
    /\ Serving("deploy")
    /\ cpc = "ready"
    /\ \E e \in EmployeeIdLists, d1 \in DateArgs, d2 \in DateArgs, net \in NetOutcomes :
         Called("get_attendance_punches", <<e, d1, d2>>, net, get_attendance_punches(e, d1, d2, net))

Call_get_timesheet_datewise ==
    /\ Serving("deploy")
    /\ cpc = "ready"
    /\ \E e \in EmployeeIdLists, d1 \in DateArgs, d2 \in DateArgs, net \in NetFew :
         Called("get_timesheet_datewise", <<e, d1, d2>>, net, get_timesheet_datewise(e, d1, d2, net))

Call_get_overtime_datewise ==
    /\ Serving("deploy")
    /\ cpc = "ready"
    /\ \E e \in EmployeeIdLists, d1 \in DateArgs, d2 \in DateArgs, net \in NetFew :
         Called("get_overtime_datewise", <<e, d1, d2>>, net, get_overtime_datewise(e, d1, d2, net))

Call_app_get_leave_report ==
    /\ Serving("app")
    /\ cpc = "ready"
    /\ \E e \in EmployeeNos, d1 \in DateArgs, d2 \in DateArgs, net \in NetOutcomes :
         Called("app_get_leave_report", <<e, d1, d2>>, net, app_get_leave_report(e, d1, d2, net))

Call_app_get_attendance_report ==
    /\ Serving("app")
    /\ cpc = "ready"
    /\ \E e \in EmployeeIdLists, d1 \in DateArgs, d2 \in DateArgs, net \in NetFew :
         Called("app_get_attendance_report", <<e, d1, d2>>, net, app_get_attendance_report(e, d1, d2, net))

Call_get_leave_balance ==
    /\ Serving("deploy")
    /\ cpc = "ready"
    /\ \E e \in EmployeeIdLists, names \in {NoneV, ListV(<<<<"C", "L">>>>)}, net \in NetOutcomes :
         Called("get_leave_balance", <<e, names>>, net, get_leave_balance(e, names, net))

Call_update_leave_status ==
    /\ Serving("deploy")
    /\ cpc = "ready"
    /\ \E e \in {StrV(E1), StrV(<<" ", "E", "1", " ">>), NoneV}, a \in ActionArgs, net \in NetFew :
         Called("update_leave_status", <<e, StrV(<<"7">>), a, StrV(<<>>)>>, net,
              update_leave_status(e, StrV(<<"7">>), a, StrV(<<>>), net))

Call_apply_for_leave ==
    /\ Serving("deploy")
    /\ cpc = "ready"
    /\ \E e \in EmployeeNos, d1 \in DateArgs, d2 \in DateArgs, half \in BOOLEAN, net \in NetFew :
         Called("apply_for_leave", <<e, d1, d2, BoolV(half)>>, net,
              apply_for_leave(e, StrV(<<"C", "L">>), d1, d2, BoolV(half), BoolV(TRUE), BoolV(TRUE),
                              StrV(<<"A", "I">>), net))

Call_get_holiday_list ==
    /\ Serving("deploy")
    /\ cpc = "ready"
    /\ \E e \in EmployeeNos, y \in {NoneV, StrV(<<"2", "0", "2", "5">>)}, net \in NetOutcomes :
         Called("get_holiday_list", <<e, y>>, net, get_holiday_list(e, y, net))

Call_get_daily_attendance_status ==
    /\ Serving("deploy")
    /\ cpc = "ready"
    /\ \E e \in EmployeeIdLists, d \in DateArgs, net \in NetOutcomes :
         Called("get_daily_attendance_status", <<e, d>>, net, get_daily_attendance_status(e, d, net))

Call_get_monthly_attendance ==
    /\ Serving("deploy")
    /\ cpc = "ready"
    /\ \E e \in EmployeeIdLists, m \in MonthArgs, net \in NetOutcomes :
         Called("get_monthly_attendance", <<e, m>>, net, get_monthly_attendance(e, m, net))

Call_get_all_employees ==
    /\ Serving("deploy")
    /\ cpc = "ready"
    /\ \E net \in NetOutcomes : Called("get_all_employees", <<>>, net, get_all_employees(net))

Call_app_get_employee_info ==
    /\ Serving("app")
    /\ cpc = "ready"
    /\ \E e \in EmployeeIdLists, net \in NetOutcomes :
         Called("app_get_employee_info", <<e>>, net, app_get_employee_info(e, net))

Call_app_get_all_employees ==
    /\ Serving("app")
    /\ cpc = "ready"
    /\ \E net \in NetOutcomes : Called("app_get_all_employees", <<>>, net, app_get_all_employees(net))

\* deploy.py: darwinbox_tools
DeployToolCalls ==
    \/ Call_get_leave_report
    \/ Call_get_leave_encashment_details
    \/ Call_get_daily_attendance_roster
    \/ Call_get_attendance_punches
    \/ Call_get_timesheet_datewise
    \/ Call_get_overtime_datewise
    \/ Call_get_leave_balance
    \/ Call_update_leave_status
    \/ Call_apply_for_leave
    \/ Call_get_holiday_list
    \/ Call_get_daily_attendance_status
    \/ Call_get_monthly_attendance
    \/ Call_get_all_employees

\* app.py: available_tools
AppToolCalls ==
    \/ Call_app_get_leave_report
    \/ Call_app_get_attendance_report
    \/ Call_app_get_employee_info
    \/ Call_app_get_all_employees

ClientNext ==
    \/ DeployToolCalls
    \/ AppToolCalls

-----------------------------------------------------------------------------
(* app.py main(): the manual function-calling loop, one user turn.         *)

MaxTurns == 2

available_tools == {"get_leave_report", "get_employee_info", "get_all_employees", "get_attendance_report"}

\* the parameters of each registered function (none has a default)
Params(name) ==
    CASE name = "get_leave_report" -> {"employee_id", "start_date", "end_date"}
      [] name = "get_employee_info" -> {"employee_ids"}
      [] name = "get_attendance_report" -> {"employee_ids", "from_date", "to_date"}
      [] OTHER -> {}

ArgKeys == {"employee_id", "start_date", "end_date", "employee_ids", "from_date", "to_date", "limit"}

\* dict(fn_call.args): the keys present and their values
Args(f) == [keys |-> DOMAIN f, v |-> [k \in ArgKeys |-> IF k \in DOMAIN f THEN f[k] ELSE NoneV]]
NoArgs == [keys |-> {}, v |-> [k \in ArgKeys |-> NoneV]]

\* function_to_call(**args): the TypeError of a call whose keywords do not fit
BindArgs(name, args) ==
    IF Params(name) \ args.keys # {} THEN Exc("TypeError", "missing required positional argument")
    ELSE IF args.keys \ Params(name) # {} THEN Exc("TypeError", "got an unexpected keyword argument")
    ELSE NoExc

\* the registered function run on the bound arguments
CallTool(name, args, net) ==
    CASE name = "get_leave_report"
            -> app_get_leave_report(args.v["employee_id"], args.v["start_date"], args.v["end_date"], net)
      [] name = "get_employee_info" -> app_get_employee_info(args.v["employee_ids"], net)
      [] name = "get_attendance_report"
            -> app_get_attendance_report(args.v["employee_ids"], args.v["from_date"], args.v["to_date"], net)
      [] OTHER -> app_get_all_employees(net)

TextPart == [kind |-> "text", name |-> "", args |-> NoArgs]
CallPart(name, args) == [kind |-> "function_call", name |-> name, args |-> args]

GoodDate == <<"2", "0", "2", "5", "-", "0", "1", "-", "3", "1">>
BadDateString == <<"3", "1", "-", "0", "1", "-", "2", "0", "2", "5">>

\* the function calls the model may ask for
CallChoices ==
    { CallPart("get_all_employees", NoArgs),
      CallPart("get_all_employees", Args([limit |-> StrV(<<"5">>)])),
      CallPart("get_leave_report", Args([employee_id |-> StrV(E1), start_date |-> StrV(GoodDate),
                                         end_date |-> StrV(GoodDate)])),
      CallPart("get_leave_report", Args([employee_id |-> StrV(E1), start_date |-> StrV(BadDateString),
                                         end_date |-> StrV(GoodDate)])),
      CallPart("get_leave_report", Args([employee_id |-> StrV(E1), start_date |-> StrV(GoodDate)])),
      CallPart("get_employee_info", Args([employee_ids |-> ListV(<<E1>>)])),
      CallPart("get_attendance_report", Args([employee_ids |-> ListV(<<E1>>), from_date |-> StrV(GoodDate),
                                              to_date |-> StrV(GoodDate)])),
      CallPart("get_leave_balance", Args([employee_ids |-> ListV(<<E1>>)])) }

\* the model's reply to the prompt: its parts
FirstReplies ==
    {<<TextPart>>, <<>>, <<TextPart, CallPart("get_all_employees", NoArgs)>>,
     <<CallPart("get_all_employees", NoArgs), CallPart("get_employee_info", Args([employee_ids |-> ListV(<<E1>>)]))>>}
    \cup {<<c>> : c \in CallChoices}

\* the model's reply to the tool result
SecondReplies ==
    {<<TextPart>>, <<CallPart("get_employee_info", Args([employee_ids |-> ListV(<<E1>>)]))>>, <<TextPart, TextPart>>}

LoopNet == {NetOk(ObjBody({"status", "data"}, "success", 2)), NetFail("timeout"), NetHttp(500, ShortText)}

Kinds(reply) == [i \in 1..Len(reply) |-> reply[i].kind]
UserEntry(kind) == [role |-> "user", kinds |-> <<kind>>]
ModelEntry(reply) == [role |-> "model", kinds |-> Kinds(reply)]

\* response.text: what reading it can do (the text, or the exception it raises)
TextOf(reply) ==
    IF Len(reply) = 1 /\ reply[1].kind = "text" THEN {NoExc}
    ELSE IF Len(reply) > 1 /\ (\E i \in 1..Len(reply) : reply[i].kind = "text")
         THEN {NoExc, Exc("ValueError", "Multiple content parts are not supported.")}
    ELSE {Exc("ValueError", "Cannot get the response text.")}

Greeting == [role |-> "assistant", content |-> "greeting", detail |-> ""]
NoTurn == [start |-> 0, sends |-> 0, reply1 |-> <<>>, lookup |-> "", bound |-> "", invoked |-> 0,
           raised |-> "", responses |-> 0, path |-> ""]
NoPart == CallPart("", NoArgs)

\* lines 225-226: the final text shown and appended
Finish_replaces_last ==
    /\ messages' = [messages EXCEPT ![Len(messages)] =
                        [role |-> "assistant", content |-> "final_text", detail |-> ""]]
    /\ pc' = "Done"
    /\ nturns' = nturns + 1
    /\ response' = <<>>
    /\ fn' = NoPart
    /\ toolret' = NoRet

Finish ==
    /\ messages' = Append(messages, [role |-> "assistant", content |-> "final_text", detail |-> ""])
    /\ pc' = "Done"
    /\ nturns' = nturns + 1
    /\ response' = <<>>
    /\ fn' = NoPart
    /\ toolret' = NoRet

\* lines 228-232: except Exception as e
ExceptHandler_no_append(e) ==
    /\ messages' = messages
    /\ pc' = IF IsInstance(e, "Exception") THEN "Done" ELSE "Crashed"
    /\ nturns' = nturns + 1
    /\ response' = <<>>
    /\ fn' = NoPart
    /\ toolret' = NoRet

ExceptHandler(e) ==
    /\ messages' = IF IsInstance(e, "Exception")
                   THEN Append(messages, [role |-> "assistant", content |-> "error_message", detail |-> e.cls])
                   ELSE messages
    /\ pc' = IF IsInstance(e, "Exception") THEN "Done" ELSE "Crashed"
    /\ nturns' = nturns + 1
    /\ response' = <<>>
    /\ fn' = NoPart
    /\ toolret' = NoRet

\* lines 188-191: the prompt is appended to the transcript
UserInput ==
    /\ Serving("app")
    /\ pc \in {"Idle", "Done"}
    /\ nturns < MaxTurns
    /\ messages' = Append(messages, [role |-> "user", content |-> "prompt", detail |-> ""])
    /\ turn' = [NoTurn EXCEPT !.start = Len(messages)]
    /\ pc' = "AwaitingModel"
    /\ UNCHANGED <<history, response, fn, toolret, nturns>>
    /\ UNCHANGED <<clientVars, startVars>>

\* line 197: chat_session.send_message(prompt); a call that fails leaves the history as it was
SendPrompt ==
    /\ pc = "AwaitingModel"
    /\ \/ \E reply \in FirstReplies :
            /\ history' = history \o <<UserEntry("text"), ModelEntry(reply)>>
            /\ response' = reply
            /\ pc' = "ModelResponded"
            /\ turn' = [turn EXCEPT !.sends = @ + 1, !.reply1 = Kinds(reply)]
            /\ UNCHANGED <<messages, fn, toolret, nturns>>
       \/ /\ ExceptHandler(Exc("GoogleAPICallError", "503 unavailable"))
          /\ turn' = [turn EXCEPT !.sends = @ + 1, !.path = "error"]
          /\ UNCHANGED history
    /\ UNCHANGED <<clientVars, startVars>>

\* lines 200-203 and 221-226: parts[0].function_call.name decides
InspectReply ==
    /\ pc = "ModelResponded"
    /\ IF response = <<>>
       THEN /\ ExceptHandler(Exc("IndexError", "list index out of range"))
            /\ turn' = [turn EXCEPT !.path = "error"]
       ELSE IF response[1].kind = "function_call"
       THEN /\ fn' = response[1]
            /\ pc' = "ExecutingTool"
            /\ UNCHANGED <<messages, response, toolret, nturns, turn>>
       ELSE \E t \in TextOf(response) :
              IF t.cls = ""
              THEN Finish /\ turn' = [turn EXCEPT !.path = "direct"]
              ELSE ExceptHandler(t) /\ turn' = [turn EXCEPT !.path = "error"]
    /\ UNCHANGED <<history, clientVars, startVars>>

\* line 209: available_tools[fn_name]
LookupTool_with_default(name) ==
    IF name \in available_tools THEN [exc |-> NoExc, name |-> name]
    ELSE [exc |-> NoExc, name |-> "get_all_employees"]

LookupTool(name) ==
    IF name \in available_tools THEN [exc |-> NoExc, name |-> name]
    ELSE [exc |-> Exc("KeyError", name), name |-> ""]

\* lines 207-210: the function is looked up and called with **args
ExecuteTool ==
    /\ pc = "ExecutingTool"
    /\ LET found == LookupTool(fn.name)
           seen == IF fn.name \in available_tools THEN "found" ELSE "unknown"
           bind == BindArgs(found.name, fn.args)
       IN IF found.exc.cls # ""
          THEN /\ ExceptHandler(found.exc)
               /\ turn' = [turn EXCEPT !.lookup = seen, !.path = "error"]
          ELSE IF bind.cls # ""
          THEN /\ ExceptHandler(bind)
               /\ turn' = [turn EXCEPT !.lookup = seen, !.bound = bind.cls, !.raised = bind.cls,
                                       !.path = "error"]
          ELSE \E net \in LoopNet :
                 LET o == CallTool(found.name, fn.args, net)
                 IN IF o.exc.cls # ""
                    THEN /\ ExceptHandler(o.exc)
                         /\ turn' = [turn EXCEPT !.lookup = seen, !.bound = "ok", !.invoked = @ + 1,
                                                 !.raised = o.exc.cls, !.path = "error"]
                    ELSE /\ toolret' = o.ret
                         /\ pc' = "ReturningToolResult"
                         /\ turn' = [turn EXCEPT !.lookup = seen, !.bound = "ok", !.invoked = @ + 1]
                         /\ UNCHANGED <<messages, response, fn, nturns>>
    /\ UNCHANGED <<history, clientVars, startVars>>

\* lines 213-219: the tool's result goes back to the model
SendToolResult ==
    /\ pc = "ReturningToolResult"
    /\ \/ \E reply \in SecondReplies :
            /\ history' = history \o <<UserEntry("function_response"), ModelEntry(reply)>>
            /\ response' = reply
            /\ pc' = "AwaitingFinalText"
            /\ turn' = [turn EXCEPT !.sends = @ + 1, !.responses = @ + 1]
            /\ UNCHANGED <<messages, fn, toolret, nturns>>
       \/ /\ ExceptHandler(Exc("GoogleAPICallError", "503 unavailable"))
          /\ turn' = [turn EXCEPT !.sends = @ + 1, !.responses = @ + 1, !.path = "error"]
          /\ UNCHANGED history
    /\ UNCHANGED <<clientVars, startVars>>

\* lines 220 and 225-226: final_text = response.text
ReadFinalText_chains ==
    /\ pc = "AwaitingFinalText"
    /\ IF response # <<>> /\ response[1].kind = "function_call"
       THEN /\ fn' = response[1]
            /\ pc' = "ExecutingTool"
            /\ UNCHANGED <<messages, response, toolret, nturns, turn>>
       ELSE \E t \in TextOf(response) :
              IF t.cls = ""
              THEN Finish /\ turn' = [turn EXCEPT !.path = "tool"]
              ELSE ExceptHandler(t) /\ turn' = [turn EXCEPT !.path = "error"]
    /\ UNCHANGED <<history, clientVars, startVars>>

ReadFinalText ==
    /\ pc = "AwaitingFinalText"
    /\ \E t \in TextOf(response) :
         IF t.cls = ""
         THEN Finish /\ turn' = [turn EXCEPT !.path = "tool"]
         ELSE ExceptHandler(t) /\ turn' = [turn EXCEPT !.path = "error"]
    /\ UNCHANGED <<history, clientVars, startVars>>

-----------------------------------------------------------------------------

\* session state before the first turn, and no tool called yet
Fresh ==
    /\ cpc = "ready"
    /\ call = NoCall
    /\ outcome = NoOutcome
    /\ pc = "Idle"
    /\ messages = <<Greeting>>
    /\ history = <<>>
    /\ response = <<>>
    /\ fn = NoPart
    /\ toolret = NoRet
    /\ turn = NoTurn
    /\ nturns = 0

\* either program, started with its configuration complete
Init ==
    /\ Fresh
    /\ \E p \in Programs :
         /\ env = FullEnv(p)
         /\ boot = [prog |-> p, pc |-> "running", loaded |-> Len(EnvNames(p)), tools |-> TRUE,
                    session |-> TRUE]

Next ==
    \/ UserInput
    \/ SendPrompt
    \/ InspectReply
    \/ ExecuteTool
    \/ SendToolResult
    \/ ReadFinalText

\* the chat application, turn after turn
Spec == Init /\ [][Next]_vars

\* the tools called one at a time
ClientSpec == Init /\ [][ClientNext]_vars

-----------------------------------------------------------------------------
(* Properties.                                                             *)

HasSuccessShape(r) == "status" \in r.keys /\ r.status = "success"
HasErrorShape(r) == "error" \in r.keys

\* C1: every result of every client operation, on every outcome path, has exactly
\* one of the two envelope shapes: status = "success", or an error field.
C1_ExactlyOneEnvelopeShape ==
    cpc = "returned" =>
        /\ outcome.exc.cls = ""
        /\ HasSuccessShape(outcome.ret) # HasErrorShape(outcome.ret)

\* C2: no client operation raises: a failed request (network error, timeout, non-2xx
\* status, undecodable body) and a call that made no request (validation failure)
\* both end with an error envelope returned as a value.
C2_NeverRaises ==
    cpc = "returned" =>
        /\ outcome.exc.cls = ""
        /\ (outcome.reqs = <<>> \/ call.net.kind # "ok") => HasErrorShape(outcome.ret)

C2_Witness ==
    /\ cpc = "returned"
    /\ call.net.kind = "timeout"
    /\ outcome.reqs # <<>>
    /\ outcome.exc.cls = ""
    /\ HasErrorShape(outcome.ret)

\* the YYYY-MM-DD arguments of a call
DateArgsOf(c) ==
    CASE c.op \in {"get_leave_report", "get_leave_encashment_details", "get_daily_attendance_roster",
                   "get_attendance_punches", "get_timesheet_datewise", "get_overtime_datewise",
                   "app_get_leave_report", "app_get_attendance_report", "apply_for_leave"}
            -> {c.args[2], c.args[3]}
      [] c.op = "get_daily_attendance_status" -> {c.args[2]}
      [] OTHER -> {}

\* validate_date_format returns False for it
Malformed(v) == LET r == validate_date_format(v) IN r.exc.cls = "" /\ ~Truthy(r.v)

\* the operations that put their date arguments into the request as given
PassThroughOps == {"get_daily_attendance_roster", "app_get_attendance_report"}

\* C3 as stated: a call of any date-taking operation with a date argument that
\* validate_date_format rejects makes no HTTP request.
C3_NoRequestWithMalformedDate ==
    (cpc = "returned" /\ \E d \in DateArgsOf(call) : Malformed(d)) => outcome.reqs = <<>>

\* C3 amended: the same, for every date-taking operation except the two that pass
\* their date strings through unvalidated.
C3_NoRequestWithMalformedDateUnlessPassThrough ==
    (cpc = "returned" /\ call.op \notin PassThroughOps /\ \E d \in DateArgsOf(call) : Malformed(d))
        => outcome.reqs = <<>>

C3_Witness ==
    /\ cpc = "returned"
    /\ call.op = "get_attendance_punches"
    /\ call.args[1] = ListV(<<E1>>)
    /\ call.args[2] = StrV(GoodDate)
    /\ Malformed(call.args[3])
    /\ call.net.kind = "ok"
    /\ outcome.reqs = <<>>

\* C4: a turn runs at most one registered tool function, whatever the model replies.
C4_AtMostOneToolPerTurn == turn.invoked <= 1

\* a turn that ran a tool, was then asked for a second call, and ended
C4_Witness ==
    /\ pc = "Done"
    /\ turn.invoked = 1
    /\ history # <<>>
    /\ history[Len(history)].kinds = <<"function_call">>

\* C5: a registered tool called with the model's arguments yields an envelope, never
\* an exception, and the envelope goes back to the model as exactly one tool-response
\* message before the turn ends, for every argument mapping.
C5_RegisteredToolYieldsEnvelope ==
    turn.lookup = "found" =>
        /\ turn.raised = ""
        /\ pc \in {"AwaitingFinalText", "Done"} => turn.responses = 1

LastMessage == messages[Len(messages)]

\* C6: a tool name that is not registered ends the turn: no tool runs, nothing more is
\* sent to the model, and the assistant's entry is the error message.
C6_UnknownToolIsFatal ==
    turn.lookup = "unknown" =>
        /\ pc = "Done"
        /\ turn.invoked = 0
        /\ turn.sends = 1
        /\ turn.responses = 0
        /\ Len(messages) = turn.start + 2
        /\ LastMessage = [role |-> "assistant", content |-> "error_message", detail |-> "KeyError"]

C6_Witness == turn.lookup = "unknown" /\ fn = NoPart /\ pc = "Done"

\* every function call of the model conversation is followed by its function response
NoDanglingCall(h) ==
    \A i \in 1..Len(h) :
        "function_call" \in Range(h[i].kinds) =>
            (i < Len(h) /\ h[i + 1].kinds = <<"function_response">>)

\* C7: a turn that failed ends with the assistant's error message and leaves the model
\* conversation with no function call that lacks its function response.
C7_FailedTurnLeavesSessionUsable ==
    (pc = "Done" /\ turn.path = "error") =>
        /\ LastMessage.role = "assistant"
        /\ LastMessage.content = "error_message"
        /\ NoDanglingCall(history)

\* C8: a completed turn has added exactly two entries, the user's message and then one
\* assistant entry: the final text, or the error message when the turn failed.
C8_TurnAddsUserThenAssistant ==
    pc = "Done" =>
        /\ Len(messages) = turn.start + 2
        /\ messages[turn.start + 1].role = "user"
        /\ messages[turn.start + 2].role = "assistant"
        /\ turn.path \in {"direct", "tool", "error"}
        /\ messages[turn.start + 2].content = IF turn.path = "error" THEN "error_message" ELSE "final_text"

\* a second turn that failed
C8_Witness == pc = "Done" /\ turn.path = "error" /\ turn.start = 3 /\ Len(messages) = 5

Lower(s) == [i \in 1..Len(s) |-> LowerChar(s[i])]

\* the action a string names when case is ignored, or <<>>
Canonical(a) ==
    CASE Lower(a) = Lower(Approved) -> Approved
      [] Lower(a) = Lower(Rejected) -> Rejected
      [] Lower(a) = Lower(Revoked) -> Revoked
      [] OTHER -> <<>>

InvalidActionTmpl == "Invalid action: {action}. Must be 'Approved', 'Rejected', or 'Revoked'."

\* C9: update_leave_status sends any casing of approved / rejected / revoked as
\* Approved / Rejected / Revoked, and answers any other action with an error envelope
\* without a request.
C9_ActionNormalized ==
    (cpc = "returned" /\ call.op = "update_leave_status" /\ IsStr(call.args[3])) =>
        LET a == call.args[3].s
        IN IF Canonical(a) # <<>>
           THEN IsStr(call.args[1]) =>
                    /\ Len(outcome.reqs) = 1
                    /\ outcome.reqs[1].payload.action = StrV(Canonical(a))
           ELSE /\ outcome.reqs = <<>>
                /\ HasErrorShape(outcome.ret)
                /\ outcome.ret.error.tmpl = InvalidActionTmpl
                /\ outcome.exc.cls = ""

C9_Witness ==
    /\ cpc = "returned"
    /\ call.op = "update_leave_status"
    /\ call.args[3] = StrV(<<"a", "P", "P", "R", "O", "V", "E", "D">>)
    /\ Len(outcome.reqs) = 1
    /\ outcome.reqs[1].payload.action = StrV(Approved)

\* four digits, a dash, two digits naming a month 01..12, of a year from 0001 on
StrictYearMonth(s) ==
    /\ Len(s) = 7
    /\ HasYearDash(s)
    /\ IsDigit(s[6]) /\ IsDigit(s[7])
    /\ 10 * DigitVal(s[6]) + DigitVal(s[7]) \in 1..12
    /\ YearOf(s) >= 1

\* C10: get_monthly_attendance with a month_year string that is not a YYYY-MM month
\* returns the invalid-month error envelope and makes no request.
C10_InvalidMonthRejected ==
    (cpc = "returned" /\ call.op = "get_monthly_attendance" /\ IsStr(call.args[2])
        /\ ~StrictYearMonth(call.args[2].s)) =>
        /\ outcome.reqs = <<>>
        /\ outcome.exc.cls = ""
        /\ outcome.ret.error.tmpl = "Invalid month_year format. Must be YYYY-MM."

TimedOutEnvelope == ErrorDict(Msg("API Error: Request timed out"))

\* C11: a request that times out makes every client operation return the envelope
\* {error: "API Error: Request timed out"} as a value, and no other outcome
\* (validation failure, HTTP status, other failure) returns that envelope.
C11_TimeoutYieldsDistinctEnvelope ==
    cpc = "returned" =>
        IF call.net.kind = "timeout" /\ outcome.reqs # <<>>
        THEN outcome.exc.cls = "" /\ outcome.ret = TimedOutEnvelope
        ELSE outcome.ret # TimedOutEnvelope

\* C12: a non-2xx answer makes every client operation return an error envelope that
\* carries the HTTP status code and a details field holding the response body cut to
\* its first 500 characters, never more.
C12_HttpErrorEnvelopeTruncated ==
    (cpc = "returned" /\ call.net.kind = "http_error" /\ outcome.reqs # <<>>) =>
        /\ outcome.exc.cls = ""
        /\ HasErrorShape(outcome.ret)
        /\ outcome.ret.error.code = call.net.status
        /\ "details" \in outcome.ret.keys
        /\ Len(outcome.ret.details) <= 500
        /\ outcome.ret.details = SubSeq(call.net.text, 1, Min(500, Len(call.net.text)))

DirectoryOps == {"get_all_employees"}

\* C13: a 2xx answer with a JSON-decodable body makes every client operation return
\* the success envelope whose data is the remote JSON value unmodified, whatever that
\* value is (object, array, number, null); the full-directory fetch of deploy.py also
\* carries the employee count derived from it.
C13_SuccessEnvelopeWrapsRemoteJson ==
    (cpc = "returned" /\ call.net.kind = "ok" /\ outcome.reqs # <<>>) =>
        /\ outcome.exc.cls = ""
        /\ outcome.ret.keys \in {{"status", "data"}, {"status", "employee_count", "data"}}
        /\ outcome.ret.status = "success"
        /\ outcome.ret.data = call.net.body
        /\ call.op \in DirectoryOps => "employee_count" \in outcome.ret.keys

\* C14: a first reply that is a direct text answer ends the turn with that text, no
\* tool looked up or run and no second message to the model; a first reply that
\* contains a function call, at any position among its parts, takes the turn through
\* ExecutingTool.
C14_ToolRunsIffFirstReplyRequestsIt ==
    (pc = "Done" /\ turn.reply1 # <<>>) =>
        IF "function_call" \in Range(turn.reply1)
        THEN turn.lookup # ""
        ELSE /\ turn.path = "direct"
             /\ turn.lookup = ""
             /\ turn.invoked = 0
             /\ turn.sends = 1
             /\ LastMessage.content = "final_text"

-----------------------------------------------------------------------------
(* The date helpers called directly, on date strings built from year, month *)
(* and day tokens, and on the other date arguments.                        *)

YearTokens ==
    { <<"0", "0", "0", "0">>, <<"0", "0", "0", "1">>, <<"0", "0", "9", "9">>, <<"0", "9", "9", "9">>,
      <<"1", "0", "0", "0">>, <<"2", "0", "2", "4">>, <<"2", "0", "2", "5">>, <<"9", "9", "9", "9">>,
      <<"2", "5">> }
MonthTokens == { <<"0", "1">>, <<"1">>, <<"0", "2">>, <<"2">>, <<"1", "2">>, <<"1", "3">>, <<"0", "0">> }
DayTokens == { <<"0", "1">>, <<"5">>, <<"2", "9">>, <<"3", "0">>, <<"3", "1">>, <<"3", "2">>, <<"0", "0">> }

HelperInputs ==
    {StrV(y \o <<"-">> \o m \o <<"-">> \o d) : y \in YearTokens, m \in MonthTokens, d \in DayTokens}
    \cup DateArgs

\* what a helper did: the exception it raised or the value it returned
HelperOutcome(r) == [exc |-> r.exc, ret |-> r.v, reqs |-> <<>>]

Call_validate_date_format ==
    /\ Serving("deploy")
    /\ cpc = "ready"
    /\ \E d \in HelperInputs :
         Called("validate_date_format", <<d>>, NoCall.net, HelperOutcome(validate_date_format(d)))

Call_convert_date_format ==
    /\ Serving("deploy")
    /\ cpc = "ready"
    /\ \E d \in HelperInputs :
         Called("convert_date_format", <<d>>, NoCall.net, HelperOutcome(convert_date_format(d)))

Call_app_convert_date_format ==
    /\ Serving("app")
    /\ cpc = "ready"
    /\ \E d \in HelperInputs :
         Called("app_convert_date_format", <<d>>, NoCall.net, HelperOutcome(app_convert_date_format(d)))

HelperNext ==
    \/ Call_validate_date_format
    \/ Call_convert_date_format
    \/ Call_app_convert_date_format

\* the date helpers called one at a time
HelperSpec == Init /\ [][HelperNext]_vars

\* a DD-MM-YYYY string parsed back: datetime.strptime(s, '%d-%m-%Y')
ParseDmY(s) ==
    LET dashes == {i \in 1..Len(s) : s[i] = "-"}
    IN IF Cardinality(dashes) # 2 THEN NoDate
       ELSE LET k1 == CHOOSE i \in dashes : \A j \in dashes : i <= j
                k2 == CHOOSE i \in dashes : \A j \in dashes : j <= i
                dtok == SubSeq(s, 1, k1 - 1)
                mtok == SubSeq(s, k1 + 1, k2 - 1)
                ytok == SubSeq(s, k2 + 1, Len(s))
            IN IF DayPrefix(dtok) = 0 \/ DayPrefix(dtok) < Len(dtok) THEN NoDate
               ELSE IF MonthPrefix(mtok) = 0 \/ MonthPrefix(mtok) < Len(mtok) THEN NoDate
               ELSE IF Len(ytok) < 4 \/ (\E i \in 1..4 : ~IsDigit(ytok[i])) THEN NoDate
               ELSE IF Len(ytok) > 4 THEN BadDate("unconverted data remains")
               ELSE IF YearOf(ytok) = 0 THEN BadDate("year 0 is out of range")
               ELSE IF TokVal(dtok) > DaysInMonth(YearOf(ytok), TokVal(mtok))
                    THEN BadDate("day is out of range for month")
               ELSE [ok |-> TRUE, y |-> YearOf(ytok), m |-> TokVal(mtok), d |-> TokVal(dtok), why |-> ""]

ConvertOps == {"convert_date_format", "app_convert_date_format"}

\* C15: convert_date_format with the default formats, on a string that
\* validate_date_format accepts, returns a string that parses as DD-MM-YYYY to the
\* same year, month and day; on a string that validate_date_format rejects it raises
\* the invalid-date error (a ValueError) and returns nothing.
C15_ConvertRoundTripsOrFails ==
    (cpc = "returned" /\ call.op \in ConvertOps /\ IsStr(call.args[1])) =>
        IF Malformed(call.args[1])
        THEN outcome.exc.cls = "ValueError"
        ELSE /\ outcome.exc.cls = ""
             /\ IsStr(outcome.ret)
             /\ LET p == strptime_Ymd(call.args[1].s)
                    q == ParseDmY(outcome.ret.s)
                IN q.ok /\ q.y = p.y /\ q.m = p.m /\ q.d = p.d

-----------------------------------------------------------------------------
(* A program run from its start, in any environment.                       *)

StartupInit ==
    /\ Fresh
    /\ \E p \in Programs :
         /\ env \in EnvsMissing(p, MaxMissing)
         /\ boot = [prog |-> p, pc |-> "start", loaded |-> 0, tools |-> FALSE, session |-> FALSE]

StartupNext ==
    \/ LoadCredentials
    \/ get_env_variable
    \/ DefineTools
    \/ StartSession
    \/ Next
    \/ DeployToolCalls

\* startup, then the turns (app.py) or the agent's tool calls (deploy.py)
StartupSpec == StartupInit /\ [][StartupNext]_vars

MissingConfig == \E n \in DOMAIN env : ~Truthy(env[n])

\* C16: when a required configuration value is absent or empty, the program stops
\* during startup: no tool is defined, no model session or agent is created, no tool
\* is ever called (so no HR API request is made) and no turn ever starts.
C16_MissingConfigStopsStartup ==
    MissingConfig =>
        /\ boot.pc \in {"start", "stopped"}
        /\ ~boot.tools
        /\ ~boot.session
        /\ cpc = "ready" /\ outcome.reqs = <<>>
        /\ pc = "Idle" /\ nturns = 0 /\ turn = NoTurn

\* deploy.py stopped at its last variable, the 22 before it loaded
C16_Witness ==
    /\ MissingConfig
    /\ boot.prog = "deploy"
    /\ boot.pc = "stopped"
    /\ boot.loaded = Len(DeployEnvNames) - 1

\* the turn's tool result was sent and the model answered it with a function call
SecondReplyIsCall ==
    /\ turn.responses = 1
    /\ Len(history) >= 2
    /\ history[Len(history) - 1].kinds = <<"function_response">>
    /\ "function_call" \in Range(history[Len(history)].kinds)

\* C17: when the model answers the tool result with a second function call, the call
\* is not executed and the turn ends on the final-text path, not the error path, with
\* the model's reply appended as the assistant entry.
C17_SecondCallSurfacedAsFinalText ==
    (pc = "Done" /\ SecondReplyIsCall) =>
        /\ turn.invoked = 1
        /\ turn.path = "tool"
        /\ LastMessage = [role |-> "assistant", content |-> "final_text", detail |-> ""]

IdCheckedOps == {"get_leave_report", "apply_for_leave", "get_leave_encashment_details", "get_holiday_list"}

\* an identifier that is not a string, or is empty or only whitespace
BlankId(v) == ~IsStr(v) \/ (\A i \in 1..Len(v.s) : v.s[i] \in Whitespace)

\* C18: get_leave_report, apply_for_leave, get_leave_encashment_details and
\* get_holiday_list of deploy.py, called with an employee identifier that is empty,
\* whitespace-only or not a string, return an error envelope and make no request.
C18_BlankIdRejectedBeforeRequest ==
    (cpc = "returned" /\ call.op \in IdCheckedOps /\ BlankId(call.args[1])) =>
        /\ outcome.exc.cls = ""
        /\ HasErrorShape(outcome.ret)
        /\ outcome.reqs = <<>>

\* a whitespace-only identifier, everything else in order, the platform ready to answer
C18_Witness ==
    /\ cpc = "returned"
    /\ call.op = "apply_for_leave"
    /\ call.args[1] = StrV(<<" ", "\t">>)
    /\ call.args[2] = StrV(GoodDate)
    /\ call.args[3] = StrV(GoodDate)
    /\ call.net.kind = "ok"
    /\ outcome.ret = ErrorDict(InvalidInputMsg)
    /\ outcome.reqs = <<>>

InvalidMonthTmpl == "Invalid month_year format. Must be YYYY-MM."

\* C19: get_monthly_attendance answers with the invalid-month envelope only for a
\* month_year string that strptime('%Y-%m') rejects, with no request attempted; a
\* failure of the request (invalid URL, undecodable body, HTTP error, timeout) is
\* never reported as an invalid month.
C19_InvalidMonthOnlyForMalformedMonth ==
    (cpc = "returned" /\ call.op = "get_monthly_attendance"
        /\ outcome.ret.error.tmpl = InvalidMonthTmpl) =>
        /\ outcome.reqs = <<>>
        /\ IsStr(call.args[2])
        /\ ~strptime_Ym(call.args[2].s).ok

\* the greeting first, then user and assistant entries in turn; between turns one
\* greeting and two entries per turn processed, within a turn the user's entry more
TranscriptAlternates ==
    /\ messages # <<>>
    /\ messages[1] = Greeting
    /\ \A i \in 1..Len(messages) : messages[i].role = IF i % 2 = 1 THEN "assistant" ELSE "user"
    /\ Len(messages) = IF pc \in {"Idle", "Done"} THEN 1 + 2 * nturns ELSE 2 + 2 * nturns

\* a step leaves the transcript as it is or appends one entry to it
TranscriptGrows ==
    \/ messages' = messages
    \/ /\ Len(messages') = Len(messages) + 1
       /\ SubSeq(messages', 1, Len(messages)) = messages

\* C20: over any sequence of direct-answer, tool-call and failing turns the transcript
\* is append-only and alternates roles: greeting first, each user entry followed by
\* exactly one assistant entry when its turn ends, no earlier entry changed or
\* removed, and between turns its length is 1 + 2 * (turns processed).
C20_TranscriptAppendOnlyAlternating == []TranscriptAlternates /\ [][TranscriptGrows]_vars

\* a failed turn and then a tool turn
C20_Witness ==
    /\ pc = "Done"
    /\ nturns = 2
    /\ Len(messages) = 5
    /\ messages[3].content = "error_message"
    /\ messages[5].content = "final_text"
    /\ turn.path = "tool"

====
